---------------------------- MODULE Spec2Model ----------------------------
(***************************************************************************)
(* Model of fetch_prices.py: the price parser, the selector extractor, the *)
(* link matcher, the per-store lookup (requests first, selenium fallback)  *)
(* and the sheet scan of main().                                           *)
(*                                                                         *)
(* Python strings are modelled as sequences of one-character strings, so   *)
(* that filtering, stripping and substring tests are computed.  A float is *)
(* modelled as the exact decimal <<num, scale>> = num / 10^scale with no   *)
(* trailing fractional zero (binary rounding is not modelled).             *)
(***************************************************************************)
EXTENDS Integers, Sequences, FiniteSets, TLC

\* ------------------------------------------------------------------ bounds
MaxTextLen == 4     \* longest text handed to parse_price by the parser harness
MaxRows    == 2     \* data rows of the sheet below the header
NumStores  == 2     \* how many entries of STORES, in order, the run uses

\* ------------------------------------------------------- Python's None
None == [some |-> FALSE]
Some(v) == [some |-> TRUE, v |-> v]

\* ------------------------------------------------------- string helpers
Digits == {"0", "1", "2", "3", "4", "5", "6", "7", "8", "9"}
Lowers == {"a", "b", "c", "d", "e", "f", "g", "h", "i", "j", "k", "l", "m",
           "n", "o", "p", "q", "r", "s", "t", "u", "v", "w", "x", "y", "z"}
Whitespace == {" "}

DigitVal(c) ==
  CASE c = "0" -> 0 [] c = "1" -> 1 [] c = "2" -> 2 [] c = "3" -> 3
    [] c = "4" -> 4 [] c = "5" -> 5 [] c = "6" -> 6 [] c = "7" -> 7
    [] c = "8" -> 8 [] c = "9" -> 9

RECURSIVE Pow10(_)
Pow10(n) == IF n = 0 THEN 1 ELSE 10 * Pow10(n - 1)

\* value of a sequence of decimal digits (the empty sequence is 0)
RECURSIVE DecVal(_)
DecVal(s) ==
  IF s = <<>> THEN 0
  ELSE 10 * DecVal(SubSeq(s, 1, Len(s) - 1)) + DigitVal(s[Len(s)])

\* occurrences of character c in s
Count(s, c) == Cardinality({i \in 1..Len(s) : s[i] = c})

\* needle occurs in hay as a contiguous substring (Python's  needle in hay)
Contains(hay, needle) ==
  \E i \in 0..(Len(hay) - Len(needle)) :
     \A j \in 1..Len(needle) : hay[i + j] = needle[j]

\* str.strip(): drop leading and trailing whitespace
RECURSIVE LStrip(_)
LStrip(s) ==
  IF s # <<>> /\ Head(s) \in Whitespace THEN LStrip(Tail(s)) ELSE s
RECURSIVE RStrip(_)
RStrip(s) ==
  IF s # <<>> /\ s[Len(s)] \in Whitespace
  THEN RStrip(SubSeq(s, 1, Len(s) - 1)) ELSE s
Strip(s) == LStrip(RStrip(s))

\* ------------------------------------------------------------ parse_price
\* re.sub(r"[^0-9.,]", "", text)
IsPriceChar(c) == c \in Digits \cup {".", ","}
StripNonPrice(text) == SelectSeq(text, IsPriceChar)

\* faulty variant: the comma is read as a decimal point
CommaToDot(c) == IF c = "," THEN "." ELSE c
DropCommas_AsDecimalPoint(s) == [i \in 1..Len(s) |-> CommaToDot(s[i])]

\* .replace(",", "")
IsNotComma(c) == c # ","
DropCommas(s) == SelectSeq(s, IsNotComma)

\* one less fractional digit while the last one is 0
RECURSIVE Canon(_, _)
Canon(num, scale) ==
  IF scale > 0 /\ num % 10 = 0 THEN Canon(num \div 10, scale - 1)
  ELSE <<num, scale>>

\* float(s) for s over digits and '.': Some(value), or None for ValueError
Float(s) ==
  IF \E i \in 1..Len(s) : s[i] \notin Digits \cup {"."} THEN None
  ELSE IF Count(s, ".") > 1 THEN None
  ELSE IF Count(s, ".") = 0
       THEN (IF s = <<>> THEN None ELSE Some(<<DecVal(s), 0>>))
  ELSE LET d    == CHOOSE i \in 1..Len(s) : s[i] = "."
           ip   == SubSeq(s, 1, d - 1)
           fp   == SubSeq(s, d + 1, Len(s))
       IN  IF ip = <<>> /\ fp = <<>> THEN None
           ELSE Some(Canon(DecVal(ip) * Pow10(Len(fp)) + DecVal(fp), Len(fp)))

parse_price(text) == Float(DropCommas(StripNonPrice(text)))

\* price > 0 on a present price
Positive(price) == price.v[1] > 0


\* ------------------------------------------------ documents (BeautifulSoup)
\* A parsed document is its anchors and its other elements, both in document
\* order.  An anchor has an optional href, its text nodes and an optional
\* title.  An element carries the set of CSS selectors it matches, an optional
\* content attribute and its descendant text nodes.
Anchor(href, strings, title) ==
  [href |-> href, strings |-> strings, title |-> title]
Element(sels, content, strings) ==
  [sels |-> sels, content |-> content, strings |-> strings]
Document(anchors, elems) == [anchors |-> anchors, elems |-> elems]

\* " ".join(strings) for a sequence of strings
RECURSIVE JoinSpace(_)
JoinSpace(ss) ==
  IF ss = <<>> THEN <<>>
  ELSE IF Len(ss) = 1 THEN Head(ss)
  ELSE Head(ss) \o <<" ">> \o JoinSpace(Tail(ss))

\* elem.stripped_strings: every text node stripped, the empty ones dropped
RECURSIVE StrippedStrings(_)
StrippedStrings(ss) ==
  IF ss = <<>> THEN <<>>
  ELSE LET h == Strip(Head(ss))
       IN  IF h = <<>> THEN StrippedStrings(Tail(ss))
           ELSE <<h>> \o StrippedStrings(Tail(ss))

\* faulty variant: the last matching element instead of the first
SelectOne_Last(soup, sel) ==
  LET hits == {i \in 1..Len(soup.elems) : sel \in soup.elems[i].sels}
  IN  IF hits = {} THEN None
      ELSE Some(soup.elems[CHOOSE i \in hits : \A j \in hits : i >= j])

\* soup.select_one(sel): first element in document order matching sel
SelectOne(soup, sel) ==
  LET hits == {i \in 1..Len(soup.elems) : sel \in soup.elems[i].sels}
  IN  IF hits = {} THEN None
      ELSE Some(soup.elems[CHOOSE i \in hits : \A j \in hits : i <= j])

\* faulty variant: an empty content attribute is handed over as it is
ElemText_ContentEvenIfEmpty(elem) ==
  IF elem.content.some
  THEN elem.content.v
  ELSE JoinSpace(StrippedStrings(elem.strings))

\* the text extract_price_from_soup hands to parse_price for one element
ElemText(elem) ==
  IF elem.content.some /\ elem.content.v # <<>>
  THEN elem.content.v
  ELSE JoinSpace(StrippedStrings(elem.strings))

RECURSIVE extract_price_from_soup(_, _)
extract_price_from_soup(soup, selectors) ==
  IF selectors = <<>> THEN None
  ELSE LET elem == SelectOne(soup, Head(selectors))
       IN  IF ~elem.some
           THEN extract_price_from_soup(soup, Tail(selectors))
           ELSE LET price == parse_price(ElemText(elem.v))
                IN  IF price.some THEN price
                    ELSE extract_price_from_soup(soup, Tail(selectors))

\* ------------------------------------------------------------------- URLs
\* A URL is a host, a path and the query as a sequence of key=value pairs
\* whose values are still percent-encoded.
Url(host, path, query) == [host |-> host, path |-> path, query |-> query]
Param(key, val) == [key |-> key, val |-> val]

UpperSeq == <<"A", "B", "C", "D", "E", "F", "G", "H", "I", "J", "K", "L", "M",
              "N", "O", "P", "Q", "R", "S", "T", "U", "V", "W", "X", "Y", "Z">>
LowerSeq == <<"a", "b", "c", "d", "e", "f", "g", "h", "i", "j", "k", "l", "m",
              "n", "o", "p", "q", "r", "s", "t", "u", "v", "w", "x", "y", "z">>

\* str.lower()
LowerChar(c) ==
  IF \E i \in 1..26 : UpperSeq[i] = c
  THEN LowerSeq[CHOOSE i \in 1..26 : UpperSeq[i] = c]
  ELSE c
Lower(s) == [i \in 1..Len(s) |-> LowerChar(s[i])]

\* urllib.parse.quote_plus on the characters item names are drawn from
QuoteChar(c) ==
  IF c \in Digits \cup Lowers \/ (\E i \in 1..26 : UpperSeq[i] = c)
       \/ c \in {"_", ".", "-", "~"}
  THEN <<c>>
  ELSE CASE c = " " -> <<"+">>
         [] c = "+" -> <<"%", "2", "B">>
         [] c = "%" -> <<"%", "2", "5">>
         [] c = "&" -> <<"%", "2", "6">>
         [] c = "/" -> <<"%", "2", "F">>
RECURSIVE quote_plus(_)
quote_plus(s) ==
  IF s = <<>> THEN <<>> ELSE QuoteChar(Head(s)) \o quote_plus(Tail(s))

\* urllib.parse.unquote_plus: '+' is a space, %XX is the encoded character
PctDecode(h1, h2) ==
  CASE h1 = "2" /\ h2 = "B" -> Some("+")
    [] h1 = "2" /\ h2 = "5" -> Some("%")
    [] h1 = "2" /\ h2 = "6" -> Some("&")
    [] h1 = "2" /\ h2 = "F" -> Some("/")
    [] h1 = "2" /\ h2 = "0" -> Some(" ")
    [] OTHER -> None
RECURSIVE unquote_plus(_)
unquote_plus(s) ==
  IF s = <<>> THEN <<>>
  ELSE IF Head(s) = "+" THEN <<" ">> \o unquote_plus(Tail(s))
  ELSE IF Head(s) = "%" /\ Len(s) >= 3 /\ PctDecode(s[2], s[3]).some
       THEN <<PctDecode(s[2], s[3]).v>> \o unquote_plus(SubSeq(s, 4, Len(s)))
  ELSE <<Head(s)>> \o unquote_plus(Tail(s))

\* urllib.parse.parse_qs(query)[key][0]: the first non-blank value of key,
\* decoded; None when the key is not in the dictionary
QueryGet(query, key) ==
  LET hits == {i \in 1..Len(query) :
                  query[i].key = key /\ query[i].val # <<>>}
  IN  IF hits = {} THEN None
      ELSE Some(unquote_plus(query[CHOOSE i \in hits : \A j \in hits : i <= j].val))

\* the path up to and including its last '/'
RECURSIVE DirOf(_)
DirOf(path) ==
  IF path = <<>> THEN <<"/">>
  ELSE IF path[Len(path)] = "/" THEN path
  ELSE DirOf(SubSeq(path, 1, Len(path) - 1))

\* urllib.parse.urljoin(base, href) for an empty, a path-absolute or a
\* relative href
urljoin(base, href) ==
  IF href = <<>> THEN base
  ELSE IF Head(href) = "/" THEN Url(base.host, href, <<>>)
  ELSE Url(base.host, DirOf(base.path) \o href, <<>>)

\* -------------------------------------------------------- find_product_link
IsAlnumLower(c) == c \in Lowers \cup Digits
normalize(text) == SelectSeq(Lower(text), IsAlnumLower)

search_keys == <<"q", "term", "keywords", "s">>

\* the first of search_keys present in the query gives the search term
RECURSIVE SearchTermFrom(_, _)
SearchTermFrom(query, keys) ==
  IF keys = <<>> THEN <<>>
  ELSE LET hit == QueryGet(query, Head(keys))
       IN  IF hit.some THEN hit.v ELSE SearchTermFrom(query, Tail(keys))

search_term_norm(base) ==
  normalize(unquote_plus(SearchTermFrom(base.query, search_keys)))

product_fragments ==
  << <<"p", "r", "o", "d", "u", "c", "t">>,
     <<"p", "r", "o", "d", "u", "c", "t", "s">>,
     <<"i", "t", "e", "m">>,
     <<"s", "h", "o", "p">> >>

\* soup.find_all("a", href=True)
HasHref(a) == a.href.some
AnchorsWithHref(soup) == SelectSeq(soup.anchors, HasHref)

IsCandidate(a) ==
  \E k \in 1..Len(product_fragments) :
     Contains(Lower(a.href.v), product_fragments[k])

\* normalize(f"{text} {title} {href}")
combined_norm(a) ==
  normalize(JoinSpace(StrippedStrings(a.strings)) \o <<" ">>
            \o (IF a.title.some THEN a.title.v ELSE <<>>) \o <<" ">>
            \o a.href.v)

find_product_link(soup, base) ==
  LET as      == AnchorsWithHref(soup)
      term    == search_term_norm(base)
      cands   == {i \in 1..Len(as) : IsCandidate(as[i])}
      matches == {i \in cands : term # <<>> /\ Contains(combined_norm(as[i]), term)}
      First(S) == CHOOSE i \in S : \A j \in S : i <= j
  IN  IF matches # {} THEN Some(urljoin(base, as[First(matches)].href.v))
      ELSE IF cands # {} THEN Some(urljoin(base, as[First(cands)].href.v))
      ELSE IF as # <<>> THEN Some(urljoin(base, as[1].href.v))
      ELSE None

\* ----------------------------------------------------------------- CONFIG
NAME_COL  == 5
STORE_COL == 12
URL_COL   == 13
PRICE_COL == 14

\* one parameter of a search template; fill marks the {} placeholder
TParam(key, val, fill) == [key |-> key, val |-> val, fill |-> fill]

\* the leading entries of STORES, in their configured order
STORES ==
  << [name |-> "Japan Centre",
      host |-> "www.japancentre.com",
      path |-> <<"/", "e", "n", "/", "s", "e", "a", "r", "c", "h">>,
      query |-> << TParam("term", <<>>, TRUE) >>,
      list_selectors |-> <<".price", ".product__price",
                           "[data-test='product-price']">>,
      detail_selectors |-> <<"meta[itemprop='price']",
                             "meta[property='product:price:amount']",
                             ".price", ".product__price">>],
     [name |-> "H Mart UK",
      host |-> "hmart.co.uk",
      path |-> <<"/", "s", "h", "o", "p", "/", "g", "b", "/",
                 "s", "e", "a", "r", "c", "h">>,
      query |-> << TParam("controller", <<"s", "e", "a", "r", "c", "h">>, FALSE),
                   TParam("s", <<>>, TRUE) >>,
      list_selectors |-> <<".price", "[itemprop='price']">>,
      detail_selectors |-> <<"[itemprop='price']",
                             "meta[property='product:price:amount']",
                             ".price">>],
     [name |-> "Sous Chef",
      host |-> "www.souschef.co.uk",
      path |-> <<"/", "s", "e", "a", "r", "c", "h">>,
      query |-> << TParam("q", <<>>, TRUE) >>,
      list_selectors |-> <<".price-item--regular", ".price",
                           "[data-product-price]">>,
      detail_selectors |-> <<"meta[itemprop='price']",
                             "meta[property='product:price:amount']",
                             ".price">>],
     [name |-> "Yutaka Shop",
      host |-> "shop.yutaka.london",
      path |-> <<"/", "s", "e", "a", "r", "c", "h">>,
      query |-> << TParam("q", <<>>, TRUE) >>,
      list_selectors |-> <<".price", ".price__regular .price-item--regular">>,
      detail_selectors |-> <<"meta[itemprop='price']",
                             "meta[property='product:price:amount']",
                             ".price">>] >>

\* store["search"].format(urllib.parse.quote_plus(name))
SearchUrl(store, name) ==
  Url(store.host, store.path,
      [i \in 1..Len(store.query) |->
          Param(store.query[i].key,
                IF store.query[i].fill THEN quote_plus(name)
                ELSE store.query[i].val)])

\* ------------------------------------------------------- the environment
\* item-name cells a sheet row can hold: empty, whitespace only, and a name
\* with surrounding whitespace
Names == { <<>>, <<" ">>, <<" ", "M", "i">> }
HeaderName == <<"I", "t", "e", "m">>

ProductHref == <<"/", "i", "t", "e", "m", "/", "m", "i">>
MetaPrice == {"meta[itemprop='price']", "[itemprop='price']"}

\* pages the web may answer with
DocEmpty    == Document(<<>>, <<>>)
DocLinkOnly == Document(<< Anchor(Some(ProductHref), << <<"M", "i">> >>, None) >>,
                        <<>>)
DocResults  == Document(<< Anchor(Some(ProductHref), << <<"M", "i">> >>, None) >>,
                        << Element({".price"}, None, << <<"£", "2">> >>) >>)
DocDetail   == Document(<<>>,
                        << Element(MetaPrice, Some(<<"5", ".", "9">>),
                                   << <<"7">> >>) >>)
DocZero     == Document(<<>>, << Element({".price"}, None, << <<"0">> >>) >>)
WebDocs == {DocEmpty, DocLinkOnly, DocResults, DocDetail, DocZero}

\* where a request for url may end up: the URL itself or a redirect target
Redirected(url) == Url(url.host, <<"/", "r">>, <<>>)
ResolvedUrls(url) == {url, Redirected(url)}

\* ------------------------------------------------------------- cell values
TextCell(s)   == [kind |-> "text", text |-> s]
UrlCell(u)    == [kind |-> "url", url |-> u]
NumberCell(n) == [kind |-> "number", num |-> n]
OldCell == TextCell("old")
OutCols == {STORE_COL, URL_COL, PRICE_COL}

\* ------------------------------------------------------------------ state
VARIABLES
  all_rows,     \* ws.get_all_values(): the NAME_COL cell of every row
  cells,        \* the sheet's output cells: row -> column -> value
  writes,       \* ws.update_cell calls that returned, in order: <<row, col>>
  pc,           \* where main is
  idx,          \* main: row index of the enumerate loop
  name,         \* main: stripped item name of the current row
  si,           \* main: position of the store loop in STORES
  found,        \* main: found
  driver,       \* main: driver (None or a session id)
  quote,        \* main: (store_name, url, price) last returned
  exc,          \* main: the call whose exception is propagating, or "none"
  queried,      \* fetch_from_store calls made, in order: <<row, store index>>
  outcomes,     \* per returned call, in order: was its quote successful
  f_pc,         \* where fetch_from_store is
  f_driver,     \* fetch_from_store: driver
  soup,         \* fetch_from_store: soup
  search_soup,  \* the search-results document the current stage parsed
  product_url,  \* fetch_from_store: product_url
  cur_url,      \* response.url, then driver.current_url
  trace,        \* what the current lookup has attempted so far, in order;
                \* "price" follows a selector evaluation that gave a price
  f_err,        \* the exceptions the current lookup has caught, in order
  via,          \* the stage whose price the current lookup returned
  f_ret,        \* fetch_from_store: the (store name, url, price) it returns
  created,      \* webdriver.Chrome sessions constructed so far
  quits,        \* driver.quit() calls so far, in order of session id
  navs,         \* session ids driver.get was called on
  p_pc,         \* parser harness: "idle", "call" or "ret"
  p_text,       \* parser harness: the text handed to parse_price
  p_result,     \* parser harness: what parse_price returned
  x_pc,         \* extractor harness: "idle", "loop" or "ret"
  x_soup,       \* extract_price_from_soup: soup
  x_selectors,  \* extract_price_from_soup: selectors
  x_i,          \* extract_price_from_soup: position of  for sel in selectors
  x_fed,        \* per selector visited: the text handed to parse_price, if any
  x_result,     \* extractor harness: what extract_price_from_soup returned
  l_pc,         \* link harness: "idle", "loop", "after" or "ret"
  l_soup,       \* find_product_link: soup
  l_base,       \* find_product_link: base
  l_k,          \* find_product_link: position of the loop in soup's anchors
  l_candidates, \* find_product_link: candidates, as positions of anchors
  l_choice,     \* link harness: position of the anchor returned, 0 for none
  l_result      \* link harness: what find_product_link returned

scan_vars  == <<all_rows, cells, writes, pc, idx, name, si, found, driver,
                quote, exc, queried, outcomes>>
fetch_vars == <<f_pc, f_driver, soup, search_soup, product_url, cur_url, trace,
                f_err, via, f_ret>>
sess_vars  == <<created, quits, navs>>
parse_vars   == <<p_pc, p_text, p_result>>
extract_vars == <<x_pc, x_soup, x_selectors, x_i, x_fed, x_result>>
link_vars    == <<l_pc, l_soup, l_base, l_k, l_candidates, l_choice, l_result>>
harness_vars == <<parse_vars, extract_vars, link_vars>>
vars == <<scan_vars, fetch_vars, sess_vars, harness_vars>>

EmptyQuote == [store_name |-> None, url |-> None, price |-> None]
Quote(n, u, p) == [store_name |-> Some(n), url |-> Some(u), price |-> Some(p)]
NoUrl == Url("", <<>>, <<>>)

\* sheets of a header and 1..MaxRows data rows
Sheets ==
  UNION { [1..(n + 1) -> Names \cup {HeaderName}] : n \in 1..MaxRows }

\* the harnesses at rest
ParseIdle ==
  /\ p_pc = "idle"
  /\ p_text = <<>>
  /\ p_result = None
ExtractIdle ==
  /\ x_pc = "idle"
  /\ x_soup = DocEmpty
  /\ x_selectors = <<>>
  /\ x_i = 1
  /\ x_fed = <<>>
  /\ x_result = None
LinkIdle ==
  /\ l_pc = "idle"
  /\ l_soup = DocEmpty
  /\ l_base = NoUrl
  /\ l_k = 1
  /\ l_candidates = <<>>
  /\ l_choice = 0
  /\ l_result = None

Init ==
  /\ all_rows \in {s \in Sheets :
                     /\ s[1] = HeaderName
                     /\ \A i \in 2..Len(s) : s[i] \in Names}
  /\ cells = [r \in 1..Len(all_rows) |-> [c \in OutCols |-> OldCell]]
  /\ writes = <<>>
  /\ pc = "loop"
  /\ idx = 2
  /\ name = <<>>
  /\ si = 1
  /\ found = FALSE
  /\ driver = None
  /\ quote = EmptyQuote
  /\ exc = "none"
  /\ queried = <<>>
  /\ outcomes = <<>>
  /\ f_pc = "idle"
  /\ f_driver = None
  /\ soup = DocEmpty
  /\ search_soup = DocEmpty
  /\ product_url = None
  /\ cur_url = NoUrl
  /\ trace = <<>>
  /\ f_err = <<>>
  /\ via = "none"
  /\ f_ret = EmptyQuote
  /\ created = 0
  /\ quits = <<>>
  /\ navs = {}
  /\ ParseIdle
  /\ ExtractIdle
  /\ LinkIdle

\* ------------------------------------------------------- fetch_from_store
store == STORES[si]
search_url == SearchUrl(store, name)

\* a return statement of fetch_from_store
Return(q, stage) ==
  /\ f_ret' = q
  /\ via' = stage
  /\ f_pc' = "return"

\* faulty variant: a failed direct search is reported as a miss at once
DirectSearchFails_GivesUp ==
  /\ f_pc = "direct_search"
  /\ trace' = Append(trace, "requests.get search")
  /\ f_err' = Append(f_err, "direct search")
  /\ Return(EmptyQuote, "none")
  /\ UNCHANGED <<f_driver, soup, search_soup, product_url, cur_url>>
  /\ UNCHANGED <<scan_vars, sess_vars, harness_vars>>

\* requests.get(search_url) raises, or parsing or link matching does
DirectSearchFails ==
  /\ f_pc = "direct_search"
  /\ trace' = Append(trace, "requests.get search")
  /\ f_err' = Append(f_err, "direct search")
  /\ f_pc' = "selenium"
  /\ UNCHANGED <<f_driver, soup, search_soup, product_url, cur_url, via, f_ret>>
  /\ UNCHANGED <<scan_vars, sess_vars, harness_vars>>

\* requests.get(search_url) answers; soup and product_url are computed
DirectSearch ==
  /\ f_pc = "direct_search"
  /\ \E doc \in WebDocs, u \in ResolvedUrls(search_url) :
        /\ soup' = doc
        /\ search_soup' = doc
        /\ cur_url' = u
        /\ product_url' = find_product_link(doc, u)
        /\ f_pc' = IF find_product_link(doc, u).some
                   THEN "direct_detail" ELSE "direct_list"
  /\ trace' = Append(trace, "requests.get search")
  /\ UNCHANGED <<f_driver, f_err, via, f_ret>>
  /\ UNCHANGED <<scan_vars, sess_vars, harness_vars>>

\* faulty variant: a failed detail request is issued a second time
DirectDetailFails_RetriesOnce ==
  /\ f_pc = "direct_detail"
  /\ trace' = Append(trace, "requests.get detail")
  /\ f_err' = Append(f_err, "direct detail")
  /\ f_pc' = IF f_err # <<>> THEN "direct_list" ELSE "direct_detail"
  /\ UNCHANGED <<f_driver, soup, search_soup, product_url, cur_url, via, f_ret>>
  /\ UNCHANGED <<scan_vars, sess_vars, harness_vars>>

\* requests.get(product_url) or the detail extraction raises: except, pass
DirectDetailFails ==
  /\ f_pc = "direct_detail"
  /\ trace' = Append(trace, "requests.get detail")
  /\ f_err' = Append(f_err, "direct detail")
  /\ f_pc' = "direct_list"
  /\ UNCHANGED <<f_driver, soup, search_soup, product_url, cur_url, via, f_ret>>
  /\ UNCHANGED <<scan_vars, sess_vars, harness_vars>>

\* requests.get(product_url) answers; the detail selectors are evaluated
DirectDetail ==
  /\ f_pc = "direct_detail"
  /\ \E doc \in WebDocs, u \in ResolvedUrls(product_url.v) :
        LET price == extract_price_from_soup(doc, store.detail_selectors)
        IN  IF price.some
            THEN /\ Return(Quote(store.name, u, price.v), "direct detail")
                 /\ trace' = trace \o <<"requests.get detail",
                                         "detail selectors", "price">>
            ELSE /\ f_pc' = "direct_list"
                 /\ trace' = trace \o <<"requests.get detail",
                                         "detail selectors">>
                 /\ UNCHANGED <<via, f_ret>>
  /\ UNCHANGED <<f_driver, soup, search_soup, product_url, cur_url, f_err>>
  /\ UNCHANGED <<scan_vars, sess_vars, harness_vars>>

\* faulty variant: a list price of the requests stage does not end the lookup
DirectList_FallsThrough ==
  /\ f_pc = "direct_list"
  /\ LET list_price == extract_price_from_soup(soup, store.list_selectors)
     IN  trace' = IF list_price.some
                  THEN trace \o <<"list selectors", "price">>
                  ELSE Append(trace, "list selectors")
  /\ f_pc' = "selenium"
  /\ UNCHANGED <<f_driver, soup, search_soup, product_url, cur_url, f_err, via, f_ret>>
  /\ UNCHANGED <<scan_vars, sess_vars, harness_vars>>

\* faulty variant: the quote carries product_url even when there is none
DirectList_UrlIsProductUrl ==
  /\ f_pc = "direct_list"
  /\ LET list_price == extract_price_from_soup(soup, store.list_selectors)
     IN  IF list_price.some
         THEN /\ Return([store_name |-> Some(store.name),
                         url |-> product_url,
                         price |-> Some(list_price.v)], "direct list")
              /\ trace' = trace \o <<"list selectors", "price">>
         ELSE /\ f_pc' = "selenium"
              /\ trace' = Append(trace, "list selectors")
              /\ UNCHANGED <<via, f_ret>>
  /\ UNCHANGED <<f_driver, soup, search_soup, product_url, cur_url, f_err>>
  /\ UNCHANGED <<scan_vars, sess_vars, harness_vars>>

\* list extraction on the search page of the requests stage
DirectList ==
  /\ f_pc = "direct_list"
  /\ LET list_price == extract_price_from_soup(soup, store.list_selectors)
     IN  IF list_price.some
         THEN /\ Return(Quote(store.name,
                              IF product_url.some THEN product_url.v
                              ELSE cur_url,
                              list_price.v), "direct list")
              /\ trace' = trace \o <<"list selectors", "price">>
         ELSE /\ f_pc' = "selenium"
              /\ trace' = Append(trace, "list selectors")
              /\ UNCHANGED <<via, f_ret>>
  /\ UNCHANGED <<f_driver, soup, search_soup, product_url, cur_url, f_err>>
  /\ UNCHANGED <<scan_vars, sess_vars, harness_vars>>

\* driver is None: webdriver.Chrome(...) constructs a session
CreateDriver ==
  /\ f_pc = "selenium"
  /\ ~f_driver.some
  /\ created' = created + 1
  /\ f_driver' = Some(created + 1)
  /\ trace' = Append(trace, "webdriver.Chrome")
  /\ UNCHANGED <<f_pc, soup, search_soup, product_url, cur_url, f_err, via, f_ret>>
  /\ UNCHANGED <<quits, navs>>
  /\ UNCHANGED <<scan_vars, harness_vars>>

\* driver is None and webdriver.Chrome(...) raises: except, pass, return
CreateDriverFails ==
  /\ f_pc = "selenium"
  /\ ~f_driver.some
  /\ trace' = Append(trace, "webdriver.Chrome")
  /\ f_err' = Append(f_err, "session")
  /\ Return(EmptyQuote, "none")
  /\ UNCHANGED <<f_driver, soup, search_soup, product_url, cur_url>>
  /\ UNCHANGED <<scan_vars, sess_vars, harness_vars>>

\* faulty variant: the except path returns None in place of the session
RenderSearchFails_DropsDriver ==
  /\ f_pc = "selenium"
  /\ f_driver.some
  /\ navs' = navs \cup {f_driver.v}
  /\ trace' = Append(trace, "driver.get search")
  /\ f_err' = Append(f_err, "rendered search")
  /\ Return(EmptyQuote, "none")
  /\ f_driver' = None
  /\ UNCHANGED <<soup, search_soup, product_url, cur_url>>
  /\ UNCHANGED <<created, quits>>
  /\ UNCHANGED <<scan_vars, harness_vars>>

\* driver.get(search_url) raises, or parsing or link matching does
RenderSearchFails ==
  /\ f_pc = "selenium"
  /\ f_driver.some
  /\ navs' = navs \cup {f_driver.v}
  /\ trace' = Append(trace, "driver.get search")
  /\ f_err' = Append(f_err, "rendered search")
  /\ Return(EmptyQuote, "none")
  /\ UNCHANGED <<f_driver, soup, search_soup, product_url, cur_url>>
  /\ UNCHANGED <<created, quits>>
  /\ UNCHANGED <<scan_vars, harness_vars>>

\* driver.get(search_url) loads a page; soup and product_url are computed
RenderSearch ==
  /\ f_pc = "selenium"
  /\ f_driver.some
  /\ navs' = navs \cup {f_driver.v}
  /\ \E doc \in WebDocs, u \in ResolvedUrls(search_url) :
        /\ soup' = doc
        /\ search_soup' = doc
        /\ cur_url' = u
        /\ product_url' = find_product_link(doc, u)
        /\ f_pc' = IF find_product_link(doc, u).some
                   THEN "render_detail" ELSE "render_list"
  /\ trace' = Append(trace, "driver.get search")
  /\ UNCHANGED <<f_driver, f_err, via, f_ret>>
  /\ UNCHANGED <<created, quits>>
  /\ UNCHANGED <<scan_vars, harness_vars>>

\* faulty variant: the failed detail navigation is not caught
RenderDetailFails_Propagates ==
  /\ f_pc = "render_detail"
  /\ navs' = navs \cup {f_driver.v}
  /\ trace' = Append(trace, "driver.get detail")
  /\ f_err' = Append(f_err, "rendered detail")
  /\ f_pc' = "idle"
  /\ exc' = "driver.get"
  /\ pc' = "finally"
  /\ UNCHANGED <<f_driver, soup, search_soup, product_url, cur_url, via, f_ret>>
  /\ UNCHANGED <<created, quits>>
  /\ UNCHANGED <<all_rows, cells, writes, idx, name, si, found, driver, quote,
                 queried, outcomes>>
  /\ UNCHANGED harness_vars

\* driver.get(product_url) or the detail extraction raises: the outer except
RenderDetailFails ==
  /\ f_pc = "render_detail"
  /\ navs' = navs \cup {f_driver.v}
  /\ trace' = Append(trace, "driver.get detail")
  /\ f_err' = Append(f_err, "rendered detail")
  /\ Return(EmptyQuote, "none")
  /\ UNCHANGED <<f_driver, soup, search_soup, product_url, cur_url>>
  /\ UNCHANGED <<created, quits>>
  /\ UNCHANGED <<scan_vars, harness_vars>>

\* faulty variant: the quote carries product_url, not driver.current_url
RenderDetail_ReturnsProductUrl ==
  /\ f_pc = "render_detail"
  /\ navs' = navs \cup {f_driver.v}
  /\ \E doc \in WebDocs, u \in ResolvedUrls(product_url.v) :
        LET price == extract_price_from_soup(doc, store.detail_selectors)
        IN  /\ soup' = doc
            /\ cur_url' = u
            /\ IF price.some
               THEN /\ Return(Quote(store.name, product_url.v, price.v),
                               "rendered detail")
                    /\ trace' = trace \o <<"driver.get detail",
                                            "detail selectors", "price">>
               ELSE /\ f_pc' = "render_list"
                    /\ trace' = trace \o <<"driver.get detail",
                                            "detail selectors">>
                    /\ UNCHANGED <<via, f_ret>>
  /\ UNCHANGED <<f_driver, search_soup, product_url, f_err>>
  /\ UNCHANGED <<created, quits>>
  /\ UNCHANGED <<scan_vars, harness_vars>>

\* driver.get(product_url) loads the detail page, which replaces soup
RenderDetail ==
  /\ f_pc = "render_detail"
  /\ navs' = navs \cup {f_driver.v}
  /\ \E doc \in WebDocs, u \in ResolvedUrls(product_url.v) :
        LET price == extract_price_from_soup(doc, store.detail_selectors)
        IN  /\ soup' = doc
            /\ cur_url' = u
            /\ IF price.some
               THEN /\ Return(Quote(store.name, u, price.v), "rendered detail")
                    /\ trace' = trace \o <<"driver.get detail",
                                            "detail selectors", "price">>
               ELSE /\ f_pc' = "render_list"
                    /\ trace' = trace \o <<"driver.get detail",
                                            "detail selectors">>
                    /\ UNCHANGED <<via, f_ret>>
  /\ UNCHANGED <<f_driver, search_soup, product_url, f_err>>
  /\ UNCHANGED <<created, quits>>
  /\ UNCHANGED <<scan_vars, harness_vars>>

\* list extraction on whatever soup holds in the selenium stage
RenderList ==
  /\ f_pc = "render_list"
  /\ LET list_price == extract_price_from_soup(soup, store.list_selectors)
     IN  IF list_price.some
         THEN /\ Return(Quote(store.name, cur_url, list_price.v),
                         "rendered list")
              /\ trace' = trace \o <<"list selectors", "price">>
         ELSE /\ Return(EmptyQuote, "none")
              /\ trace' = Append(trace, "list selectors")
  /\ UNCHANGED <<f_driver, soup, search_soup, product_url, cur_url, f_err>>
  /\ UNCHANGED <<scan_vars, sess_vars, harness_vars>>

\* -------------------------------------------------------------------- main
\* faulty variant: any present price makes the quote successful
Successful_AnyPrice(q) ==
  /\ q.store_name.some /\ q.store_name.v # ""
  /\ q.price.some

\* if store_name and price is not None and price > 0
Successful(q) ==
  /\ q.store_name.some /\ q.store_name.v # ""
  /\ q.price.some /\ Positive(q.price)

\* the for loop over all_rows[1:] is exhausted
LoopExit ==
  /\ pc = "loop"
  /\ idx > Len(all_rows)
  /\ pc' = "finally"
  /\ UNCHANGED <<all_rows, cells, writes, idx, name, si, found, driver, quote,
                 exc, queried, outcomes>>
  /\ UNCHANGED <<fetch_vars, sess_vars, harness_vars>>

\* name = row[NAME_COL - 1].strip(); if not name: continue
SkipRow ==
  /\ pc = "loop"
  /\ idx <= Len(all_rows)
  /\ Strip(all_rows[idx]) = <<>>
  /\ name' = Strip(all_rows[idx])
  /\ idx' = idx + 1
  /\ UNCHANGED <<all_rows, cells, writes, pc, si, found, driver, quote, exc,
                 queried, outcomes>>
  /\ UNCHANGED <<fetch_vars, sess_vars, harness_vars>>

\* faulty variant: the name is tested without being stripped
TakeRow_NoStrip ==
  /\ pc = "loop"
  /\ idx <= Len(all_rows)
  /\ all_rows[idx] # <<>>
  /\ name' = all_rows[idx]
  /\ found' = FALSE
  /\ si' = 1
  /\ pc' = "stores"
  /\ UNCHANGED <<all_rows, cells, writes, idx, driver, quote, exc, queried,
                 outcomes>>
  /\ UNCHANGED <<fetch_vars, sess_vars, harness_vars>>

\* a row with a name: found = False and the store loop starts
TakeRow ==
  /\ pc = "loop"
  /\ idx <= Len(all_rows)
  /\ Strip(all_rows[idx]) # <<>>
  /\ name' = Strip(all_rows[idx])
  /\ found' = FALSE
  /\ si' = 1
  /\ pc' = "stores"
  /\ UNCHANGED <<all_rows, cells, writes, idx, driver, quote, exc, queried, outcomes>>
  /\ UNCHANGED <<fetch_vars, sess_vars, harness_vars>>

\* main calls fetch_from_store(name, store, driver)
Call ==
  /\ pc = "stores"
  /\ si <= NumStores
  /\ queried' = Append(queried, <<idx, si>>)
  /\ pc' = "lookup"
  /\ f_pc' = "direct_search"
  /\ f_driver' = driver
  /\ soup' = DocEmpty
  /\ search_soup' = DocEmpty
  /\ product_url' = None
  /\ cur_url' = NoUrl
  /\ trace' = <<>>
  /\ f_err' = <<>>
  /\ via' = "none"
  /\ f_ret' = EmptyQuote
  /\ UNCHANGED <<all_rows, cells, writes, idx, name, si, found, driver, quote,
                 exc, outcomes>>
  /\ UNCHANGED <<sess_vars, harness_vars>>

\* store_name, url, price, driver = <returned tuple>; the quote is successful
ReceiveHit ==
  /\ pc = "lookup"
  /\ f_pc = "return"
  /\ Successful(f_ret)
  /\ quote' = f_ret
  /\ driver' = f_driver
  /\ f_pc' = "idle"
  /\ pc' = "write_store"
  /\ UNCHANGED <<all_rows, cells, writes, idx, name, si, found, exc, queried>>
  /\ outcomes' = Append(outcomes, Successful(f_ret))
  /\ UNCHANGED <<f_driver, soup, search_soup, product_url, cur_url, trace, f_err, via, f_ret>>
  /\ UNCHANGED <<sess_vars, harness_vars>>

\* faulty variant: the first unsuccessful store ends the store loop
ReceiveMiss_GivesUp ==
  /\ pc = "lookup"
  /\ f_pc = "return"
  /\ ~Successful(f_ret)
  /\ quote' = f_ret
  /\ driver' = f_driver
  /\ f_pc' = "idle"
  /\ pc' = "na_price"
  /\ outcomes' = Append(outcomes, Successful(f_ret))
  /\ UNCHANGED <<all_rows, cells, writes, idx, name, si, found, exc, queried>>
  /\ UNCHANGED <<f_driver, soup, search_soup, product_url, cur_url, trace, f_err, via, f_ret>>
  /\ UNCHANGED <<sess_vars, harness_vars>>

\* the returned quote is not successful: on to the next store
ReceiveMiss ==
  /\ pc = "lookup"
  /\ f_pc = "return"
  /\ ~Successful(f_ret)
  /\ quote' = f_ret
  /\ driver' = f_driver
  /\ f_pc' = "idle"
  /\ si' = si + 1
  /\ pc' = "stores"
  /\ UNCHANGED <<all_rows, cells, writes, idx, name, found, exc, queried>>
  /\ outcomes' = Append(outcomes, Successful(f_ret))
  /\ UNCHANGED <<f_driver, soup, search_soup, product_url, cur_url, trace, f_err, via, f_ret>>
  /\ UNCHANGED <<sess_vars, harness_vars>>

\* ws.update_cell(row, col, value) returns
update_cell(row, col, value) ==
  /\ cells' = [cells EXCEPT ![row][col] = value]
  /\ writes' = Append(writes, <<row, col>>)

WriteStore ==
  /\ pc = "write_store"
  /\ update_cell(idx, STORE_COL, TextCell(quote.store_name.v))
  /\ pc' = "write_url"
  /\ UNCHANGED <<all_rows, idx, name, si, found, driver, quote, exc, queried, outcomes>>
  /\ UNCHANGED <<fetch_vars, sess_vars, harness_vars>>

WriteUrl ==
  /\ pc = "write_url"
  /\ update_cell(idx, URL_COL, UrlCell(quote.url.v))
  /\ pc' = "write_price"
  /\ UNCHANGED <<all_rows, idx, name, si, found, driver, quote, exc, queried, outcomes>>
  /\ UNCHANGED <<fetch_vars, sess_vars, harness_vars>>

\* faulty variant: no break after the writes, the store loop goes on
WritePrice_NoBreak ==
  /\ pc = "write_price"
  /\ update_cell(idx, PRICE_COL, NumberCell(quote.price.v))
  /\ found' = TRUE
  /\ si' = si + 1
  /\ pc' = "stores"
  /\ UNCHANGED <<all_rows, idx, name, driver, quote, exc, queried, outcomes>>
  /\ UNCHANGED <<fetch_vars, sess_vars, harness_vars>>

\* the third write, then found = True; break, and the next row
WritePrice ==
  /\ pc = "write_price"
  /\ update_cell(idx, PRICE_COL, NumberCell(quote.price.v))
  /\ found' = TRUE
  /\ idx' = idx + 1
  /\ pc' = "loop"
  /\ UNCHANGED <<all_rows, name, si, driver, quote, exc, queried, outcomes>>
  /\ UNCHANGED <<fetch_vars, sess_vars, harness_vars>>

\* the store loop is exhausted and found is False
StoresExhausted ==
  /\ pc = "stores"
  /\ si > NumStores
  /\ ~found
  /\ pc' = "na_price"
  /\ UNCHANGED <<all_rows, cells, writes, idx, name, si, found, driver, quote,
                 exc, queried, outcomes>>
  /\ UNCHANGED <<fetch_vars, sess_vars, harness_vars>>

\* faulty variant: the sentinel is written, store and URL are not cleared
NaPrice_KeepsStoreAndUrl ==
  /\ pc = "na_price"
  /\ update_cell(idx, PRICE_COL, TextCell("N/A"))
  /\ idx' = idx + 1
  /\ pc' = "loop"
  /\ UNCHANGED <<all_rows, name, si, found, driver, quote, exc, queried, outcomes>>
  /\ UNCHANGED <<fetch_vars, sess_vars, harness_vars>>

NaPrice ==
  /\ pc = "na_price"
  /\ update_cell(idx, PRICE_COL, TextCell("N/A"))
  /\ pc' = "na_store"
  /\ UNCHANGED <<all_rows, idx, name, si, found, driver, quote, exc, queried, outcomes>>
  /\ UNCHANGED <<fetch_vars, sess_vars, harness_vars>>

NaStore ==
  /\ pc = "na_store"
  /\ update_cell(idx, STORE_COL, TextCell(""))
  /\ pc' = "na_url"
  /\ UNCHANGED <<all_rows, idx, name, si, found, driver, quote, exc, queried, outcomes>>
  /\ UNCHANGED <<fetch_vars, sess_vars, harness_vars>>

NaUrl ==
  /\ pc = "na_url"
  /\ update_cell(idx, URL_COL, TextCell(""))
  /\ idx' = idx + 1
  /\ pc' = "loop"
  /\ UNCHANGED <<all_rows, name, si, found, driver, quote, exc, queried, outcomes>>
  /\ UNCHANGED <<fetch_vars, sess_vars, harness_vars>>

WritePcs == {"write_store", "write_url", "write_price",
             "na_price", "na_store", "na_url"}

\* ws.update_cell raises: the exception leaves the loops for the finally block
UpdateCellFails ==
  /\ pc \in WritePcs
  /\ exc' = "update_cell"
  /\ pc' = "finally"
  /\ UNCHANGED <<all_rows, cells, writes, idx, name, si, found, driver, quote,
                 queried, outcomes>>
  /\ UNCHANGED <<fetch_vars, sess_vars, harness_vars>>

\* faulty variant: driver.quit() follows the loop instead of a finally block
Finally_SkippedOnError ==
  /\ pc = "finally"
  /\ quits' = IF driver.some /\ exc = "none" THEN Append(quits, driver.v)
              ELSE quits
  /\ pc' = IF exc # "none" THEN "raised" ELSE "done"
  /\ UNCHANGED <<all_rows, cells, writes, idx, name, si, found, driver, quote,
                 exc, queried, outcomes>>
  /\ UNCHANGED <<created, navs>>
  /\ UNCHANGED <<fetch_vars, harness_vars>>

\* finally: if driver is not None: driver.quit()
Finally ==
  /\ pc = "finally"
  /\ quits' = IF driver.some THEN Append(quits, driver.v) ELSE quits
  /\ pc' = IF exc # "none" THEN "raised" ELSE "done"
  /\ UNCHANGED <<all_rows, cells, writes, idx, name, si, found, driver, quote,
                 exc, queried, outcomes>>
  /\ UNCHANGED <<created, navs>>
  /\ UNCHANGED <<fetch_vars, harness_vars>>

fetch_from_store ==
  \/ DirectSearchFails \/ DirectSearch
  \/ DirectDetailFails \/ DirectDetail
  \/ DirectList
  \/ CreateDriver \/ CreateDriverFails
  \/ RenderSearchFails \/ RenderSearch
  \/ RenderDetailFails \/ RenderDetail
  \/ RenderList

main ==
  \/ LoopExit \/ SkipRow \/ TakeRow
  \/ Call \/ ReceiveHit \/ ReceiveMiss
  \/ WriteStore \/ WriteUrl \/ WritePrice
  \/ StoresExhausted \/ NaPrice \/ NaStore \/ NaUrl
  \/ UpdateCellFails
  \/ Finally

Next == main \/ fetch_from_store

Spec == Init /\ [][Next]_vars

\* ------------------------------------------------------- parser harness
\* the characters of the texts handed to parse_price
PriceChars == {"0", "1", "5", ".", ",", "-", "£"}
RECURSIVE TextsOfLen(_)
TextsOfLen(n) ==
  IF n = 0 THEN { <<>> }
  ELSE {Append(t, c) : t \in TextsOfLen(n - 1), c \in PriceChars}
Texts == UNION {TextsOfLen(n) : n \in 0..MaxTextLen}

InitParse ==
  /\ all_rows = <<HeaderName, <<>> >>
  /\ cells = [r \in 1..Len(all_rows) |-> [c \in OutCols |-> OldCell]]
  /\ writes = <<>>
  /\ pc = "off"
  /\ idx = 2
  /\ name = <<>>
  /\ si = 1
  /\ found = FALSE
  /\ driver = None
  /\ quote = EmptyQuote
  /\ exc = "none"
  /\ queried = <<>>
  /\ outcomes = <<>>
  /\ f_pc = "idle"
  /\ f_driver = None
  /\ soup = DocEmpty
  /\ search_soup = DocEmpty
  /\ product_url = None
  /\ cur_url = NoUrl
  /\ trace = <<>>
  /\ f_err = <<>>
  /\ via = "none"
  /\ f_ret = EmptyQuote
  /\ created = 0
  /\ quits = <<>>
  /\ navs = {}
  /\ p_pc = "call"
  /\ p_text \in Texts
  /\ p_result = None
  /\ ExtractIdle
  /\ LinkIdle

\* price = parse_price(text)
ParsePrice ==
  /\ p_pc = "call"
  /\ p_result' = parse_price(p_text)
  /\ p_pc' = "ret"
  /\ UNCHANGED <<p_text, scan_vars, fetch_vars, sess_vars, extract_vars,
                 link_vars>>

NextParse == ParsePrice

SpecParse == InitParse /\ [][NextParse]_vars

\* ---------------------------------------------------- extractor harness
MaxElems     == 2   \* most elements of a document handed to the extractor
MaxSelectors == 2   \* longest selector list handed to the extractor

\* main() and fetch_from_store are not running
ProgramOff ==
  /\ all_rows = <<HeaderName, <<>> >>
  /\ cells = [r \in 1..Len(all_rows) |-> [c \in OutCols |-> OldCell]]
  /\ writes = <<>>
  /\ pc = "off"
  /\ idx = 2
  /\ name = <<>>
  /\ si = 1
  /\ found = FALSE
  /\ driver = None
  /\ quote = EmptyQuote
  /\ exc = "none"
  /\ queried = <<>>
  /\ outcomes = <<>>
  /\ f_pc = "idle"
  /\ f_driver = None
  /\ soup = DocEmpty
  /\ search_soup = DocEmpty
  /\ product_url = None
  /\ cur_url = NoUrl
  /\ trace = <<>>
  /\ f_err = <<>>
  /\ via = "none"
  /\ f_ret = EmptyQuote
  /\ created = 0
  /\ quits = <<>>
  /\ navs = {}

\* selectors, and the elements a document handed to the extractor is made of:
\* with no content attribute, an empty one, one that parses and one that does
\* not; with no text, one text node, and a blank node before a node that
\* holds two spaces in a row
Selectors == {".a", ".b"}
ElemSels == { {".a"}, {".b"}, {".a", ".b"} }
ElemContents == { None, Some(<<>>), Some(<<"4">>), Some(<<"x">>) }
ElemStrings == { <<>>,
                 << <<"£", "3">> >>,
                 << <<" ">>, <<" ", "1", " ", " ", "2">> >> }
Elems == {Element(ss, c, t) : ss \in ElemSels, c \in ElemContents,
                              t \in ElemStrings}

RECURSIVE SeqsOfLen(_, _)
SeqsOfLen(S, n) ==
  IF n = 0 THEN { <<>> }
  ELSE {Append(q, e) : q \in SeqsOfLen(S, n - 1), e \in S}
SeqsUpTo(S, n) == UNION {SeqsOfLen(S, k) : k \in 0..n}

InitExtract ==
  /\ ProgramOff
  /\ ParseIdle
  /\ LinkIdle
  /\ x_pc = "loop"
  /\ x_soup \in {Document(<<>>, es) : es \in SeqsUpTo(Elems, MaxElems)}
  /\ x_selectors \in SeqsUpTo(Selectors, MaxSelectors)
  /\ x_i = 1
  /\ x_fed = <<>>
  /\ x_result = None

\* what one turn of the loop did: the selector, the element select_one gave
\* and the text handed to parse_price
Visit(sel, elem, text) == [sel |-> sel, elem |-> elem, text |-> text]

\* elem = soup.select_one(sel); if not elem: continue
ExtractNoElem ==
  /\ x_pc = "loop"
  /\ x_i <= Len(x_selectors)
  /\ ~SelectOne(x_soup, x_selectors[x_i]).some
  /\ x_fed' = Append(x_fed, Visit(x_selectors[x_i], None, None))
  /\ x_i' = x_i + 1
  /\ UNCHANGED <<x_pc, x_soup, x_selectors, x_result, scan_vars, fetch_vars,
                 sess_vars, parse_vars, link_vars>>

\* price = parse_price(text) is None: on to the next selector
ExtractMiss ==
  /\ x_pc = "loop"
  /\ x_i <= Len(x_selectors)
  /\ LET elem == SelectOne(x_soup, x_selectors[x_i])
     IN  /\ elem.some
         /\ ~parse_price(ElemText(elem.v)).some
         /\ x_fed' = Append(x_fed, Visit(x_selectors[x_i], elem,
                                         Some(ElemText(elem.v))))
  /\ x_i' = x_i + 1
  /\ UNCHANGED <<x_pc, x_soup, x_selectors, x_result, scan_vars, fetch_vars,
                 sess_vars, parse_vars, link_vars>>

\* if price is not None: return price
ExtractHit ==
  /\ x_pc = "loop"
  /\ x_i <= Len(x_selectors)
  /\ LET elem == SelectOne(x_soup, x_selectors[x_i])
     IN  /\ elem.some
         /\ parse_price(ElemText(elem.v)).some
         /\ x_fed' = Append(x_fed, Visit(x_selectors[x_i], elem,
                                         Some(ElemText(elem.v))))
         /\ x_result' = parse_price(ElemText(elem.v))
  /\ x_pc' = "ret"
  /\ UNCHANGED <<x_soup, x_selectors, x_i, scan_vars, fetch_vars, sess_vars,
                 parse_vars, link_vars>>

\* the loop ran out of selectors: return None
ExtractExhausted ==
  /\ x_pc = "loop"
  /\ x_i > Len(x_selectors)
  /\ x_result' = None
  /\ x_pc' = "ret"
  /\ UNCHANGED <<x_soup, x_selectors, x_i, x_fed, scan_vars, fetch_vars,
                 sess_vars, parse_vars, link_vars>>

NextExtract ==
  \/ ExtractNoElem
  \/ ExtractMiss
  \/ ExtractHit
  \/ ExtractExhausted

SpecExtract == InitExtract /\ [][NextExtract]_vars

\* ---------------------------------------------------------- link harness
MaxAnchors == 3     \* most anchors of a document handed to the link matcher

\* anchors a search page is made of: without href, with an empty, a relative
\* and an absolute href that name no product, and product links that match
\* the term "mi" not at all, by text, by title, by href, and by text and
\* title read together
PageAnchors ==
  { Anchor(None, << <<"M", "i">> >>, None),
    Anchor(Some(<<>>), <<>>, None),
    Anchor(Some(<<"x">>), <<>>, None),
    Anchor(Some(<<"/", "x">>), << <<"M", "i">> >>, None),
    Anchor(Some(<<"/", "i", "t", "e", "m">>), <<>>, None),
    Anchor(Some(<<"/", "i", "t", "e", "m">>), << <<" ", "M", "i">> >>, None),
    Anchor(Some(<<"/", "i", "t", "e", "m">>), <<>>, Some(<<"M", "-", "i">>)),
    Anchor(Some(ProductHref), <<>>, None),
    Anchor(Some(<<"/", "S", "h", "o", "p">>), << <<"M">> >>, Some(<<"i">>)) }

\* URLs the search page was served from: a search URL whose term needs
\* decoding, one reached by a redirect that dropped the query, and one whose
\* term sits under the key "s" after another parameter
PageBases ==
  { SearchUrl(STORES[1], <<"M", " ", "i">>),
    Redirected(SearchUrl(STORES[1], <<"M", " ", "i">>)),
    SearchUrl(STORES[2], <<"M", "i">>) }

InitLink ==
  /\ ProgramOff
  /\ ParseIdle
  /\ ExtractIdle
  /\ l_pc = "loop"
  /\ l_soup \in {Document(as, <<>>) : as \in SeqsUpTo(PageAnchors, MaxAnchors)}
  /\ l_base \in PageBases
  /\ l_k = 1
  /\ l_candidates = <<>>
  /\ l_choice = 0
  /\ l_result = None

\* the anchor the loop stands at
l_a == l_soup.anchors[l_k]

\* search_term_norm and search_term_norm in combined_norm
Matches(a, base) ==
  /\ search_term_norm(base) # <<>>
  /\ Contains(combined_norm(a), search_term_norm(base))

\* find_all("a", href=True) passes over an anchor without href
LinkNoHref ==
  /\ l_pc = "loop"
  /\ l_k <= Len(l_soup.anchors)
  /\ ~HasHref(l_a)
  /\ l_k' = l_k + 1
  /\ UNCHANGED <<l_pc, l_soup, l_base, l_candidates, l_choice, l_result,
                 scan_vars, fetch_vars, sess_vars, parse_vars, extract_vars>>

\* the href names no product: next anchor
LinkNotCandidate ==
  /\ l_pc = "loop"
  /\ l_k <= Len(l_soup.anchors)
  /\ HasHref(l_a)
  /\ ~IsCandidate(l_a)
  /\ l_k' = l_k + 1
  /\ UNCHANGED <<l_pc, l_soup, l_base, l_candidates, l_choice, l_result,
                 scan_vars, fetch_vars, sess_vars, parse_vars, extract_vars>>

\* return urllib.parse.urljoin(base, href)
LinkMatch ==
  /\ l_pc = "loop"
  /\ l_k <= Len(l_soup.anchors)
  /\ HasHref(l_a)
  /\ IsCandidate(l_a)
  /\ Matches(l_a, l_base)
  /\ l_result' = Some(urljoin(l_base, l_a.href.v))
  /\ l_choice' = l_k
  /\ l_pc' = "ret"
  /\ UNCHANGED <<l_soup, l_base, l_k, l_candidates, scan_vars, fetch_vars,
                 sess_vars, parse_vars, extract_vars>>

\* faulty variant: the first candidate is returned at once, matching or not
LinkCandidate_ReturnsAtOnce ==
  /\ l_pc = "loop"
  /\ l_k <= Len(l_soup.anchors)
  /\ HasHref(l_a)
  /\ IsCandidate(l_a)
  /\ ~Matches(l_a, l_base)
  /\ l_result' = Some(urljoin(l_base, l_a.href.v))
  /\ l_choice' = l_k
  /\ l_pc' = "ret"
  /\ UNCHANGED <<l_soup, l_base, l_k, l_candidates, scan_vars, fetch_vars,
                 sess_vars, parse_vars, extract_vars>>

\* candidates.append((combined_norm, href))
LinkCandidate ==
  /\ l_pc = "loop"
  /\ l_k <= Len(l_soup.anchors)
  /\ HasHref(l_a)
  /\ IsCandidate(l_a)
  /\ ~Matches(l_a, l_base)
  /\ l_candidates' = Append(l_candidates, l_k)
  /\ l_k' = l_k + 1
  /\ UNCHANGED <<l_pc, l_soup, l_base, l_choice, l_result, scan_vars,
                 fetch_vars, sess_vars, parse_vars, extract_vars>>

\* faulty variant: the last candidate is returned
LinkFirstCandidate_Last ==
  /\ l_pc = "loop"
  /\ l_k > Len(l_soup.anchors)
  /\ l_candidates # <<>>
  /\ l_result' = Some(urljoin(l_base,
                        l_soup.anchors[l_candidates[Len(l_candidates)]].href.v))
  /\ l_choice' = l_candidates[Len(l_candidates)]
  /\ l_pc' = "ret"
  /\ UNCHANGED <<l_soup, l_base, l_k, l_candidates, scan_vars, fetch_vars,
                 sess_vars, parse_vars, extract_vars>>

\* if candidates: return urllib.parse.urljoin(base, candidates[0][1])
LinkFirstCandidate ==
  /\ l_pc = "loop"
  /\ l_k > Len(l_soup.anchors)
  /\ l_candidates # <<>>
  /\ l_result' = Some(urljoin(l_base, l_soup.anchors[l_candidates[1]].href.v))
  /\ l_choice' = l_candidates[1]
  /\ l_pc' = "ret"
  /\ UNCHANGED <<l_soup, l_base, l_k, l_candidates, scan_vars, fetch_vars,
                 sess_vars, parse_vars, extract_vars>>

\* first = soup.find("a", href=True); if first: return urljoin(base, ...)
LinkFirstAnchor ==
  /\ l_pc = "loop"
  /\ l_k > Len(l_soup.anchors)
  /\ l_candidates = <<>>
  /\ \E i \in 1..Len(l_soup.anchors) :
        /\ HasHref(l_soup.anchors[i])
        /\ \A j \in 1..(i - 1) : ~HasHref(l_soup.anchors[j])
        /\ l_result' = Some(urljoin(l_base, l_soup.anchors[i].href.v))
        /\ l_choice' = i
  /\ l_pc' = "ret"
  /\ UNCHANGED <<l_soup, l_base, l_k, l_candidates, scan_vars, fetch_vars,
                 sess_vars, parse_vars, extract_vars>>

\* return None
LinkNone ==
  /\ l_pc = "loop"
  /\ l_k > Len(l_soup.anchors)
  /\ l_candidates = <<>>
  /\ \A i \in 1..Len(l_soup.anchors) : ~HasHref(l_soup.anchors[i])
  /\ l_result' = None
  /\ l_choice' = 0
  /\ l_pc' = "ret"
  /\ UNCHANGED <<l_soup, l_base, l_k, l_candidates, scan_vars, fetch_vars,
                 sess_vars, parse_vars, extract_vars>>

NextLink ==
  \/ LinkNoHref
  \/ LinkNotCandidate
  \/ LinkMatch
  \/ LinkCandidate
  \/ LinkFirstCandidate
  \/ LinkFirstAnchor
  \/ LinkNone

SpecLink == InitLink /\ [][NextLink]_vars

\* ------------------------------------------------------------- properties
InTrace(e) == \E i \in 1..Len(trace) : trace[i] = e
InErr(e) == \E i \in 1..Len(f_err) : f_err[i] = e

DirectEvents   == {"requests.get search", "requests.get detail"}
RenderedEvents == {"webdriver.Chrome", "driver.get search", "driver.get detail"}

\* the calls made for row r, as positions in queried
RowCalls(r) == {k \in 1..Len(queried) : queried[k][1] = r}
LastCall == queried[Len(queried)]

\* the header, or a row whose item name is empty or only whitespace
Blank(r) == r = 1 \/ Strip(all_rows[r]) = <<>>

Sentinel == TextCell("N/A")

\* every configured store was queried for row r and none was successful
AllMissed(r) ==
  \A s \in 1..NumStores :
     \E k \in 1..Len(outcomes) : queried[k] = <<r, s>> /\ ~outcomes[k]

\* C1: a lookup returns the empty Quote only after the requests stage and
\* then the selenium stage were attempted: the trace starts with the direct
\* search request, the session was obtained or its construction attempted,
\* and with a session in hand the search URL was navigated to; every direct
\* attempt precedes every rendered one.
C1_MissOnlyAfterRendered ==
  (f_pc = "return" /\ f_ret = EmptyQuote) =>
     /\ trace # <<>> /\ trace[1] = "requests.get search"
     /\ InTrace("webdriver.Chrome") \/ f_driver.some
     /\ f_driver.some => InTrace("driver.get search")
     /\ \A i, j \in 1..Len(trace) :
           (trace[i] \in DirectEvents /\ trace[j] \in RenderedEvents) => i < j

\* a second or later lookup whose direct search raised and which navigated
\* the session to the search URL before reporting the miss
C1_Witness ==
  /\ f_pc = "return" /\ f_ret = EmptyQuote
  /\ Len(queried) >= 2
  /\ f_err # <<>> /\ f_err[1] = "direct search"
  /\ InTrace("driver.get search")

\* C2: within a lookup nothing is attempted after a selector evaluation gave
\* a price: a price is the last entry of the trace and the lookup has
\* returned it.  A price from the direct detail page leaves the list
\* selectors unevaluated, and a price from the direct stage leaves the
\* selenium stage unentered (no session, no navigation).
C2_FirstPriceEndsLookup ==
  /\ \A i \in 1..Len(trace) :
        trace[i] = "price" =>
           /\ i = Len(trace)
           /\ f_pc \in {"return", "idle"}
           /\ f_ret.price.some
  /\ via = "direct detail" =>
        trace = <<"requests.get search", "requests.get detail",
                  "detail selectors", "price">>
  /\ via \in {"direct detail", "direct list"} =>
        \A i \in 1..Len(trace) : trace[i] \notin RenderedEvents
  /\ via # "none" => trace # <<>> /\ trace[Len(trace)] = "price"

\* the direct detail page gave no price and the direct list extraction did
C2_Witness ==
  /\ f_pc = "return"
  /\ via = "direct list"
  /\ InTrace("detail selectors")
  /\ created = 0

\* C3: for every item the stores are queried in STORES order, a store only
\* after the one before it returned an unsuccessful quote; no store is
\* queried for an item after a successful quote; and the row of a found item
\* holds the quote of that successful call.
C3_FirstSuccessfulStoreWins ==
  /\ \A k \in 1..Len(queried) :
        \/ /\ queried[k][2] = 1
           /\ k > 1 => queried[k - 1][1] < queried[k][1]
        \/ /\ k > 1
           /\ queried[k - 1] = <<queried[k][1], queried[k][2] - 1>>
           /\ ~outcomes[k - 1]
  /\ \A k \in 1..Len(outcomes) :
        outcomes[k] => \A j \in RowCalls(queried[k][1]) : j <= k
  /\ \A r \in 2..Len(all_rows) :
        cells[r][PRICE_COL].kind = "number" =>
           \E k \in RowCalls(r) :
              /\ k <= Len(outcomes) /\ outcomes[k]
              /\ cells[r][STORE_COL] = TextCell(STORES[queried[k][2]].name)
              /\ k = Len(queried) =>
                    /\ quote = f_ret
                    /\ cells[r][STORE_COL] = TextCell(quote.store_name.v)
                    /\ cells[r][URL_COL] = UrlCell(quote.url.v)
                    /\ cells[r][PRICE_COL] = NumberCell(quote.price.v)

\* the first store missed, the second succeeded and its quote was written
C3_Witness ==
  /\ pc = "done"
  /\ queried = << <<2, 1>>, <<2, 2>> >>
  /\ cells[2][STORE_COL] = TextCell(STORES[2].name)
  /\ cells[2][PRICE_COL].kind = "number"

\* C4: the sentinel is in a row's price cell only if every store was queried
\* for the row and none was successful; once main has moved past a row with
\* a name, the row holds ("", "", "N/A") exactly when every store was queried
\* and none was successful; a row with a successful store never holds it.
C4_SentinelIffAllStoresMiss ==
  \A r \in 2..Len(all_rows) :
     /\ cells[r][PRICE_COL] = Sentinel => AllMissed(r)
     /\ (r < idx /\ ~Blank(r)) =>
           ((/\ cells[r][PRICE_COL] = Sentinel
             /\ cells[r][STORE_COL] = TextCell("")
             /\ cells[r][URL_COL] = TextCell(""))
            <=> AllMissed(r))
     /\ (\E k \in RowCalls(r) : k <= Len(outcomes) /\ outcomes[k]) =>
           cells[r][PRICE_COL] # Sentinel

\* a finished run with the sentinel row written after every store missed
C4_Witness ==
  /\ pc = "done"
  /\ cells[2] = [c \in OutCols |->
                   IF c = PRICE_COL THEN Sentinel ELSE TextCell("")]
  /\ Cardinality(RowCalls(2)) = NumStores

\* C5: a created session is never quit twice, is quit only once main has
\* left the loops for good (after the last lookup, hence never used again),
\* and is quit exactly once by the time main has ended, whether it ended
\* normally or with the exception of a sheet write.
C5_SessionReleasedOnce ==
  /\ \A i \in 1..Len(quits) : quits[i] \in 1..created
  /\ \A id \in 1..created : Count(quits, id) <= 1
  /\ quits # <<>> => pc \in {"done", "raised"} /\ f_pc = "idle"
  /\ pc \in {"done", "raised"} => \A id \in 1..created : Count(quits, id) = 1

\* a run ended by a failed sheet write, after a lookup whose rendered detail
\* navigation raised on the created session, with the session quit once
C5_Witness ==
  /\ pc = "raised"
  /\ exc = "update_cell"
  /\ created = 1
  /\ quits = <<1>>
  /\ InErr("rendered detail")

\* C6: at most one session is constructed in a run; it is constructed inside
\* a lookup whose requests stage was attempted first and gave no price, when
\* main holds no session; from then on fetch_from_store holds and returns
\* that handle, main holds it between lookups, and every navigation uses it.
C6_OneSharedSession ==
  /\ created <= 1
  /\ navs \subseteq 1..created
  /\ created = 1 => f_driver = Some(1)
  /\ f_pc = "idle" => driver = f_driver
  /\ InTrace("webdriver.Chrome") =>
        /\ trace[1] = "requests.get search"
        /\ \A i, j \in 1..Len(trace) :
              (trace[i] = "price" /\ trace[j] = "webdriver.Chrome") => j < i
        /\ via \notin {"direct detail", "direct list"}
        /\ f_pc # "idle" => ~driver.some

\* a later lookup navigates the session an earlier lookup created, the
\* navigation raises, and the lookup still returns that session
C6_Witness ==
  /\ f_pc = "return"
  /\ created = 1
  /\ driver = Some(1)
  /\ ~InTrace("webdriver.Chrome")
  /\ InErr("rendered search")
  /\ f_driver = Some(1)

\* C7: a failure inside a lookup never propagates: a lookup that caught
\* failures returns a quote to a main that is still scanning; the only
\* exception that ends a run is that of a sheet write; after an unsuccessful
\* quote main is at the next store of the same row (or past the last store);
\* and a run that ends normally has looked up every row with a name until a
\* store succeeded or all were queried.
C7_LookupFailuresNotFatal ==
  /\ exc # "none" => exc = "update_cell" /\ pc \in {"finally", "raised"}
  /\ f_pc # "idle" => pc = "lookup" /\ exc = "none"
  /\ f_pc = "return" =>
        \/ f_ret = EmptyQuote
        \/ f_ret.store_name.some /\ f_ret.url.some /\ f_ret.price.some
  /\ \A k \in 1..Len(outcomes) :
        (~outcomes[k] /\ queried[k][2] < NumStores) =>
           \/ k < Len(queried) /\ queried[k + 1] = <<queried[k][1], queried[k][2] + 1>>
           \/ /\ k = Len(queried)
              /\ pc = "stores" /\ si = queried[k][2] + 1 /\ idx = queried[k][1]
  /\ pc = "done" =>
        \A r \in 2..Len(all_rows) :
           ~Blank(r) =>
              \/ AllMissed(r)
              \/ \E k \in RowCalls(r) : outcomes[k]

\* a run that ended normally although lookups of its second item caught a
\* failed direct request, and then a failed session construction
C7_Witness ==
  /\ pc = "done"
  /\ queried # <<>>
  /\ queried[1][1] = 2
  /\ LastCall = <<3, NumStores>>
  /\ f_err = <<"direct search", "session">>

\* C8: when a lookup's direct search raised and its rendered detail page gave
\* a positive price through the detail selectors, then once the row's writes
\* are done the row holds the store's name, the session's current URL on the
\* detail page and that price, main has moved past the row, and no later
\* store was queried for it.
C8_RenderedDetailEndToEnd ==
  ( /\ via = "rendered detail"
    /\ f_err # <<>> /\ f_err[1] = "direct search"
    /\ Positive(f_ret.price)
    /\ exc = "none"
    /\ pc \in {"loop", "finally", "done"} ) =>
      LET r == LastCall[1]
          s == LastCall[2]
      IN  /\ cells[r][STORE_COL] = TextCell(STORES[s].name)
          /\ cells[r][URL_COL] = UrlCell(cur_url)
          /\ cells[r][PRICE_COL] =
                NumberCell(extract_price_from_soup(
                              soup, STORES[s].detail_selectors).v)
          /\ idx > r
          /\ \A k \in RowCalls(r) : queried[k][2] <= s

\* the second store's direct search raised, its rendered detail page was
\* reached through a redirect and gave the price, and the row was written
C8_Witness ==
  /\ pc = "done"
  /\ via = "rendered detail"
  /\ f_err = <<"direct search">>
  /\ LastCall = <<2, 2>>
  /\ cur_url = Redirected(product_url.v)
  /\ cells[2][PRICE_COL] = NumberCell(<<59, 1>>)

\* C9: no call and no write is made for the header or for a row whose name
\* is empty or only whitespace, and their cells keep their content; every
\* write goes to an output column of the row of the item last looked up,
\* which is the row main is at while it writes.
C9_BlankRowsUntouched ==
  /\ \A k \in 1..Len(queried) : ~Blank(queried[k][1])
  /\ \A k \in 1..Len(writes) :
        /\ ~Blank(writes[k][1])
        /\ writes[k][2] \in OutCols
        /\ RowCalls(writes[k][1]) # {}
  /\ \A r \in 1..Len(all_rows) :
        Blank(r) => cells[r] = [c \in OutCols |-> OldCell]
  /\ \A k \in 1..Len(writes) : writes[k][1] <= LastCall[1]
  /\ (writes # <<>> /\ pc \in WritePcs \ {"write_store", "na_price"}) =>
        writes[Len(writes)][1] = idx
  /\ pc \in WritePcs \cup {"stores", "lookup"} =>
        /\ idx \in 2..Len(all_rows)
        /\ name = Strip(all_rows[idx])
        /\ name # <<>>
        /\ queried # <<>> => LastCall[1] <= idx
        /\ pc \in WritePcs => LastCall[1] = idx

\* a whitespace-only row was passed over and the row after it was written
C9_Witness ==
  /\ pc = "done"
  /\ Len(all_rows) = 3
  /\ all_rows[2] = <<" ">>
  /\ Len(writes) = 3
  /\ writes[1][1] = 3

\* ------------------------------------------------------- C10: parse_price
IsDigitOrDot(c) == c \in Digits \cup {"."}
IsDigit(c) == c \in Digits

\* what is left of text after deleting all but digits and '.'
Remainder(text) == SelectSeq(text, IsDigitOrDot)

\* digits of r after its '.', when it has one
FractionDigits(r) ==
  IF Count(r, ".") = 0 THEN 0
  ELSE Len(r) - (CHOOSE i \in 1..Len(r) : r[i] = ".")

\* C10: parse_price returns None exactly when the remainder is empty, a
\* lone '.', or has more than one '.'; otherwise it returns the number the
\* remainder denotes (its digits read as an integer, divided by ten to the
\* number of digits after the '.'), which is never negative.
C10_ParsePriceDenotes ==
  p_pc = "ret" =>
    LET r == Remainder(p_text)
    IN  /\ p_result = None <=>
              (r = <<>> \/ r = <<".">> \/ Count(r, ".") > 1)
        /\ p_result.some =>
              /\ p_result.v[1] * Pow10(FractionDigits(r))
                   = DecVal(SelectSeq(r, IsDigit)) * Pow10(p_result.v[2])
              /\ p_result.v[1] >= 0
              /\ p_result.v[2] >= 0

\* "-1,5" holds a sign and a thousands separator and parses to 15
C10_Witness ==
  /\ p_pc = "ret"
  /\ p_text = <<"-", "1", ",", "5">>
  /\ p_result = Some(<<15, 0>>)

\* ------------------------------------------- C11: extract_price_from_soup
\* position of the first element of doc matching sel, 0 when there is none
FirstMatch(doc, sel) ==
  IF \E i \in 1..Len(doc.elems) : sel \in doc.elems[i].sels
  THEN CHOOSE i \in 1..Len(doc.elems) :
          /\ sel \in doc.elems[i].sels
          /\ \A j \in 1..(i - 1) : sel \notin doc.elems[j].sels
  ELSE 0

\* the price a visit produced, None when it produced none
VisitPrice(v) == IF v.text.some THEN parse_price(v.text.v) ELSE None

\* C11: extract_price_from_soup visits the selectors in list order, looks
\* only at the first element matching each one, passes over selectors with no
\* element or with a text that does not parse, returns the price of the
\* lowest-index selector that yields one without evaluating any selector
\* after it, and returns None exactly when no selector yields a price.
C11_FirstSelectorWithPriceWins ==
  x_pc = "ret" =>
    LET n == Len(x_fed)
    IN  /\ n <= Len(x_selectors)
        /\ \A k \in 1..n :
              /\ x_fed[k].sel = x_selectors[k]
              /\ LET m == FirstMatch(x_soup, x_selectors[k])
                 IN  /\ x_fed[k].elem.some <=> m # 0
                     /\ x_fed[k].elem.some <=> x_fed[k].text.some
                     /\ m # 0 => x_fed[k].elem.v = x_soup.elems[m]
        /\ \A k \in 1..(n - 1) : ~VisitPrice(x_fed[k]).some
        /\ x_result.some =>
              /\ n >= 1
              /\ x_result = VisitPrice(x_fed[n])
        /\ ~x_result.some =>
              /\ n = Len(x_selectors)
              /\ \A k \in 1..n : ~VisitPrice(x_fed[k]).some
        /\ x_result = extract_price_from_soup(x_soup, x_selectors)

\* ".a" matches two elements and only the second would parse, ".b" matches
\* one that parses: the price is the one of ".b", found on the second turn
C11_Witness ==
  /\ x_pc = "ret"
  /\ x_selectors = <<".a", ".b">>
  /\ Len(x_soup.elems) = 2
  /\ x_soup.elems[1] = Element({".a"}, Some(<<"x">>), <<>>)
  /\ x_soup.elems[2] = Element({".a", ".b"}, Some(<<"4">>), <<>>)
  /\ Len(x_fed) = 2
  /\ ~VisitPrice(x_fed[1]).some
  /\ x_result = Some(<<4, 0>>)

\* --------------------------------- C12: the text handed to parse_price
\* the element's text nodes, each stripped of surrounding whitespace, the
\* empty ones dropped, joined by single spaces
VisibleText(elem) == JoinSpace(StrippedStrings(elem.strings))

\* C12 as stated: an element with a content attribute has that attribute's
\* value handed to parse_price, and the visible text is used only when the
\* element carries no content attribute.
C12_ContentAttributeAlwaysWins ==
  x_pc = "ret" =>
    \A k \in 1..Len(x_fed) :
       x_fed[k].elem.some =>
         LET e == x_fed[k].elem.v
         IN  /\ e.content.some => x_fed[k].text.v = e.content.v
             /\ ~e.content.some => x_fed[k].text.v = VisibleText(e)

\* C12, amended: a non-empty content attribute value is handed to
\* parse_price whatever the visible text is; when the attribute is missing
\* or empty, the visible text is handed over instead.
C12_NonEmptyContentWins ==
  x_pc = "ret" =>
    \A k \in 1..Len(x_fed) :
       x_fed[k].elem.some =>
         LET e == x_fed[k].elem.v
         IN  x_fed[k].text.v =
               IF e.content.some /\ e.content.v # <<>> THEN e.content.v
               ELSE VisibleText(e)

\* ".a" selects an element whose content "x" is handed over although its
\* visible text would parse; ".b" selects one with an empty content
\* attribute, whose visible text is handed over and gives the price
C12_Witness ==
  /\ x_pc = "ret"
  /\ Len(x_fed) = 2
  /\ x_fed[1].elem = Some(Element({".a"}, Some(<<"x">>), << <<"£", "3">> >>))
  /\ x_fed[1].text = Some(<<"x">>)
  /\ x_fed[2].elem = Some(Element({".b"}, Some(<<>>), << <<"£", "3">> >>))
  /\ x_fed[2].text = Some(<<"£", "3">>)
  /\ x_result = Some(<<3, 0>>)

\* ------------------------------------------------ C13: find_product_link
\* anchor i of the page is a candidate: its href names a product
CandidateAt(i) ==
  /\ l_soup.anchors[i].href.some
  /\ \E k \in 1..Len(product_fragments) :
        Contains(Lower(l_soup.anchors[i].href.v), product_fragments[k])

\* the query term recovered from the base URL, normalized
QueryTerm == search_term_norm(l_base)

\* anchor i is a candidate whose normalized text, title and href, read
\* together, contain the query term
MatchAt(i) ==
  /\ CandidateAt(i)
  /\ LET a == l_soup.anchors[i]
     IN  Contains(normalize(JoinSpace(StrippedStrings(a.strings)) \o <<" ">>
                            \o (IF a.title.some THEN a.title.v ELSE <<>>)
                            \o <<" ">> \o a.href.v),
                  QueryTerm)

AnchorIdx == 1..Len(l_soup.anchors)

\* C13: when some candidate anchor contains the normalized query term, the
\* first such anchor in document order is the one returned, whatever
\* precedes it; and while the page has any candidate anchor, the anchor
\* returned is a candidate.
C13_FirstMatchingCandidateWins ==
  l_pc = "ret" =>
    /\ \A i \in AnchorIdx :
          (MatchAt(i) /\ \A j \in 1..(i - 1) : ~MatchAt(j)) => l_choice = i
    /\ (\E i \in AnchorIdx : CandidateAt(i)) =>
          /\ l_choice \in AnchorIdx
          /\ CandidateAt(l_choice)

\* a link that names no product and a product link that does not match come
\* first; the third anchor matches by its text and is returned
C13_Witness ==
  /\ l_pc = "ret"
  /\ Len(l_soup.anchors) = 3
  /\ QueryTerm = <<"m", "i">>
  /\ ~CandidateAt(1)
  /\ l_soup.anchors[1].href.some
  /\ CandidateAt(2) /\ ~MatchAt(2)
  /\ MatchAt(3)
  /\ l_soup.anchors[3].strings # <<>>
  /\ l_choice = 3
  /\ l_result = Some(Url(l_base.host, <<"/", "i", "t", "e", "m">>, <<>>))

\* ------------------------------------- C14: find_product_link's fallbacks
\* no candidate anchor matches a query term
NoMatch == \A i \in AnchorIdx : ~(QueryTerm # <<>> /\ MatchAt(i))
NoCandidate == \A i \in AnchorIdx : ~CandidateAt(i)

\* the link returned is the chosen anchor's href resolved against the base
ResolvedChoice ==
  l_result.some =>
    /\ l_choice \in AnchorIdx
    /\ l_soup.anchors[l_choice].href.some
    /\ l_result.v = urljoin(l_base, l_soup.anchors[l_choice].href.v)

\* C14 as stated: without a match the first candidate is returned; without
\* candidates the first anchor of the page; None exactly when the page has no
\* anchors; the link is the anchor's href resolved against the base.
C14_FirstAnchorOfPage ==
  l_pc = "ret" =>
    /\ (NoMatch /\ ~NoCandidate) =>
          /\ CandidateAt(l_choice)
          /\ \A j \in 1..(l_choice - 1) : ~CandidateAt(j)
    /\ (NoCandidate /\ l_soup.anchors # <<>>) => l_choice = 1
    /\ ~l_result.some <=> l_soup.anchors = <<>>
    /\ ResolvedChoice

\* C14, amended: without a match the first candidate is returned; without
\* candidates the first anchor that carries an href attribute; None exactly
\* when no anchor of the page carries an href attribute; the link is the
\* anchor's href resolved against the base.
C14_FirstAnchorWithHref ==
  l_pc = "ret" =>
    /\ (NoMatch /\ ~NoCandidate) =>
          /\ l_choice \in AnchorIdx
          /\ CandidateAt(l_choice)
          /\ \A j \in 1..(l_choice - 1) : ~CandidateAt(j)
    /\ (NoCandidate /\ \E i \in AnchorIdx : l_soup.anchors[i].href.some) =>
          /\ l_choice \in AnchorIdx
          /\ l_soup.anchors[l_choice].href.some
          /\ \A j \in 1..(l_choice - 1) : ~l_soup.anchors[j].href.some
    /\ ~l_result.some <=> \A i \in AnchorIdx : ~l_soup.anchors[i].href.some
    /\ ResolvedChoice
    /\ l_result = find_product_link(l_soup, l_base)

\* an anchor without href comes first; the relative link after it is the one
\* returned, resolved against the directory of the search URL
C14_Witness ==
  /\ l_pc = "ret"
  /\ l_base = SearchUrl(STORES[1], <<"M", " ", "i">>)
  /\ Len(l_soup.anchors) = 2
  /\ ~l_soup.anchors[1].href.some
  /\ l_soup.anchors[2].href = Some(<<"x">>)
  /\ l_choice = 2
  /\ l_result = Some(Url("www.japancentre.com", <<"/", "e", "n", "/", "x">>,
                         <<>>))

\* ------------------------------ C15: list extraction after the detail hop
\* position in the trace at which the selenium stage began, past the end of
\* the trace when it has not begun
RenderedStart ==
  IF \E i \in 1..Len(trace) : trace[i] \in RenderedEvents
  THEN CHOOSE i \in 1..Len(trace) :
          /\ trace[i] \in RenderedEvents
          /\ \A j \in 1..(i - 1) : trace[j] \notin RenderedEvents
  ELSE Len(trace) + 1

\* the list selectors were evaluated in the requests stage, in the selenium
\* stage
DirectListDone ==
  \E i \in 1..Len(trace) : i < RenderedStart /\ trace[i] = "list selectors"
RenderedListDone ==
  \E i \in 1..Len(trace) : i > RenderedStart /\ trace[i] = "list selectors"

\* the stage got its search page, and was left without a detail price
DirectStageGivenUp ==
  /\ f_pc \in {"selenium", "render_detail", "render_list", "return"}
  /\ InTrace("requests.get search") /\ ~InErr("direct search")
  /\ via \notin {"direct detail"}
RenderedStageGivenUp ==
  /\ f_pc = "return"
  /\ InTrace("driver.get search") /\ ~InErr("rendered search")
  /\ via \notin {"direct detail", "direct list", "rendered detail"}

\* C15: in the requests stage and in the selenium stage alike, a stage that
\* got its search page and no price from the detail hop (no product link, a
\* failed detail fetch or navigation, no detail selector matched) evaluates
\* the list selectors before it is given up.
C15_ListSelectorsAlwaysTried ==
  /\ DirectStageGivenUp => DirectListDone
  /\ RenderedStageGivenUp => RenderedListDone

\* ---------------------------------- C16: the document of list extraction
\* C16: in both stages the document the list selectors are evaluated
\* against is the search page the stage parsed, also after a detail page was
\* fetched and gave no price.
C16_ListSelectorsOnSearchDocument ==
  f_pc \in {"direct_list", "render_list"} => soup = search_soup

\* ------------------------------------------------------- C17: no retry
\* C17: a lookup issues each of its four requests at most once (direct
\* search, direct detail, rendered search, rendered detail) and constructs at
\* most one session, and no direct request follows the start of the selenium
\* stage.
C17_NoRetry ==
  /\ Count(trace, "requests.get search") <= 1
  /\ Count(trace, "requests.get detail") <= 1
  /\ Count(trace, "driver.get search") <= 1
  /\ Count(trace, "driver.get detail") <= 1
  /\ Count(trace, "webdriver.Chrome") <= 1
  /\ Cardinality({i \in 1..Len(trace) : trace[i] \in DirectEvents}) <= 2
  /\ \A i \in 1..Len(trace) :
        i > RenderedStart => trace[i] \notin DirectEvents

\* a lookup that issued all four requests: the direct detail fetch failed,
\* the direct list gave nothing, and the rendered detail page was loaded
C17_Witness ==
  /\ f_pc = "return"
  /\ InErr("direct detail")
  /\ Count(trace, "requests.get search") = 1
  /\ Count(trace, "requests.get detail") = 1
  /\ Count(trace, "driver.get search") = 1
  /\ Count(trace, "driver.get detail") = 1

\* ------------------------------------------- C18: only positive prices
\* the quote main received last carries a price that is not positive
ZeroQuote == quote.price.some /\ quote.price.v[1] <= 0

\* C18: every number in the price column is strictly positive; a quote with
\* the price 0 counts as a miss: none of its fields is written, main goes on
\* to the next store of the row, and when it came from the last store the
\* row gets the sentinel.
C18_OnlyPositivePricesWritten ==
  /\ \A r \in 1..Len(all_rows) :
        cells[r][PRICE_COL].kind = "number" => cells[r][PRICE_COL].num[1] > 0
  /\ ZeroQuote =>
        /\ pc \notin {"write_store", "write_url", "write_price"}
        /\ ~outcomes[Len(outcomes)]
        /\ cells[LastCall[1]][PRICE_COL].kind # "number"
        /\ (pc = "stores" /\ idx = LastCall[1]) => si = LastCall[2] + 1
        /\ (idx > LastCall[1] \/ pc = "done") =>
              /\ LastCall[2] = NumStores
              /\ cells[LastCall[1]][PRICE_COL] = Sentinel

\* the first store quoted the price 0 for the second item and the second
\* store is being asked, after the first item got a positive price
C18_Witness ==
  /\ pc = "lookup"
  /\ ZeroQuote
  /\ quote.store_name.some
  /\ LastCall = <<3, 2>>
  /\ cells[2][PRICE_COL].kind = "number"
  /\ cells[3][PRICE_COL] = OldCell

\* ------------------------------------------ C19: complete or empty quotes
\* C19: a quote returned by fetch_from_store has store name, URL and price
\* all absent, or all present with the name of the store that was queried;
\* the three-None return is the only one without a price.
C19_QuoteCompleteOrEmpty ==
  f_pc = "return" =>
    \/ /\ ~f_ret.store_name.some
       /\ ~f_ret.url.some
       /\ ~f_ret.price.some
       /\ via = "none"
    \/ /\ f_ret.store_name.some
       /\ f_ret.store_name.v = STORES[LastCall[2]].name
       /\ f_ret.url.some
       /\ f_ret.price.some
       /\ via # "none"

\* the second store's search page listed a price and had no link to follow:
\* the quote carries the store's name and the URL the search was served from
C19_Witness ==
  /\ f_pc = "return"
  /\ queried # <<>> /\ LastCall[2] = 2
  /\ via = "direct list"
  /\ ~product_url.some
  /\ f_ret.store_name = Some("H Mart UK")
  /\ f_ret.url = Some(cur_url)
  /\ f_ret.price.some

\* ------------------------------------------------ C20: rows after a run
\* the columns written for row r, in the order of the writes
RECURSIVE ColsWritten(_, _)
ColsWritten(r, k) ==
  IF k = 0 THEN <<>>
  ELSE IF writes[k][1] = r THEN Append(ColsWritten(r, k - 1), writes[k][2])
  ELSE ColsWritten(r, k - 1)

\* row r holds a store's name, a URL that is not empty and a positive price
HoldsQuote(r) ==
  /\ \E s \in 1..NumStores :
        /\ \E k \in RowCalls(r) : queried[k][2] = s
        /\ cells[r][STORE_COL] = TextCell(STORES[s].name)
  /\ cells[r][URL_COL].kind = "url"
  /\ cells[r][URL_COL].url # NoUrl
  /\ cells[r][PRICE_COL].kind = "number"
  /\ cells[r][PRICE_COL].num[1] > 0

\* row r holds the sentinel and cleared store and URL cells
HoldsSentinel(r) ==
  /\ cells[r][STORE_COL] = TextCell("")
  /\ cells[r][URL_COL] = TextCell("")
  /\ cells[r][PRICE_COL] = TextCell("N/A")

\* C20: when main has ended without raising, every row with a name got
\* exactly three writes, one to each of its store, URL and price cells, and
\* holds either a queried store's name with a non-empty URL and a positive
\* price, or empty store, empty URL and "N/A"; no write went anywhere else.
C20_RowsCompleteAfterRun ==
  pc = "done" =>
    /\ \A r \in 2..Len(all_rows) :
          ~Blank(r) =>
             /\ Len(ColsWritten(r, Len(writes))) = 3
             /\ {ColsWritten(r, Len(writes))[j] : j \in 1..3}
                   = {STORE_COL, URL_COL, PRICE_COL}
             /\ HoldsQuote(r) \/ HoldsSentinel(r)
    /\ \A k \in 1..Len(writes) :
          /\ writes[k][1] \in 2..Len(all_rows)
          /\ ~Blank(writes[k][1])
          /\ writes[k][2] \in {STORE_COL, URL_COL, PRICE_COL}

\* a finished run over two items: the first got a quote from the second
\* store, the second got the sentinel
C20_Witness ==
  /\ pc = "done"
  /\ Len(all_rows) = 3
  /\ Len(writes) = 6
  /\ cells[2][STORE_COL] = TextCell("H Mart UK")
  /\ HoldsQuote(2)
  /\ HoldsSentinel(3)

=============================================================================
